---- MODULE Spec2Model ----
(***************************************************************************)
(* A model of the rate limited promise queue of                            *)
(* src/src/promise-queue-rate-limited.js.                                  *)
(*                                                                         *)
(* The queue object's fields are the variables tasks, isActive,            *)
(* maxCallsPerSecond, jobIntervalMillis, lastTaskTimestamp and             *)
(* currentTaskTimeoutId.  The host environment is the clock `now`          *)
(* (Date.now(), in milliseconds) and the set `timers` of the outstanding   *)
(* setTimeout timers.  `promises` holds the state of the promise returned  *)
(* by each add() call.  The other variables are history variables: they    *)
(* record what happened and are never read by the operations.              *)
(*   executed     the ids of the executed entries, in execution order      *)
(*   lastExecAt   the instant of the most recent execution (Null: none)    *)
(*   stopSince    stop() was called since the most recent execution began  *)
(*   everStarted  start() was called                                       *)
(*   unshifted    add() has put an entry at the head of a non-empty queue  *)
(*   last         the most recent call or timer firing                     *)
(*                                                                         *)
(* JavaScript is single threaded: every public method and every timer      *)
(* callback runs to completion, so each is one atomic action.  A task may  *)
(* call back into the queue while it runs; such a call is part of the      *)
(* timer callback's action.  The methods are therefore written as          *)
(* operators from a state record to a state record and the actions         *)
(* compose them.                                                           *)
(***************************************************************************)
EXTENDS Integers, Sequences, FiniteSets, TLC

VARIABLES maxCallsPerSecond, jobIntervalMillis, tasks, isActive,
          lastTaskTimestamp, currentTaskTimeoutId, timers, now, promises,
          executed, lastExecAt, stopSince, everStarted, unshifted, last

vars == <<maxCallsPerSecond, jobIntervalMillis, tasks, isActive,
          lastTaskTimestamp, currentTaskTimeoutId, timers, now, promises,
          executed, lastExecAt, stopSince, everStarted, unshifted, last>>

(***************************************************************************)
(* Bounds of the model.                                                    *)
(***************************************************************************)
\* add() is called at most MaxSubmit times (by the client and by tasks).
MaxSubmit == 2
\* The clock runs from 1 to MaxTime.
MaxTime == 4

(***************************************************************************)
(* JavaScript values.  Timer ids and Date.now() values are positive, so    *)
(* null is modelled by 0: `x == null` and `if (x)` then agree with the     *)
(* code for every value these fields hold.  NaN is modelled by -1 and is   *)
(* only ever handled by the Js* operators below.                           *)
(***************************************************************************)
Null == 0
NaN == -1

\* a / b for a number a and an argument list entry b (undefined gives NaN).
JsDiv(a, args) == IF Len(args) = 0 THEN NaN ELSE a \div args[1]
\* a - b
JsSub(a, b) == IF a = NaN \/ b = NaN THEN NaN ELSE a - b
\* a > b (false when either side is NaN)
JsGt(a, b) == a # NaN /\ b # NaN /\ a > b
\* Math.max(a, b) (NaN when either side is NaN)
MathMax(a, b) == IF a = NaN \/ b = NaN THEN NaN ELSE IF a > b THEN a ELSE b
\* if (x): null, 0 and NaN are falsy
Truthy(x) == x # Null /\ x # NaN

(***************************************************************************)
(* The constructor's arguments: new Queue() and new Queue(500) (one call   *)
(* every 2 ms).                                                            *)
(***************************************************************************)
CtorArgs == {<<>>, <<500>>}

(***************************************************************************)
(* The tasks a client submits.  Each is one function object (remove()      *)
(* compares by identity).                                                  *)
(*   one        function () { return 1; }                                  *)
(*   thrower    function () { throw "ERROR!"; }                            *)
(*   stopper    function () { q.stop(); }                                  *)
(*   restarter  function () { q.stop(); q.start(); }                       *)
(*   appender   function () { if (n < MaxSubmit) q.append(one); }          *)
(***************************************************************************)
Tasks == {"one", "thrower", "stopper", "restarter", "appender"}

\* The tasks a client also submits with prepend() and removes with remove():
\* those that do not call the queue.
PlainTasks == {"one", "thrower"}

Pending == [state |-> "pending"]
Fulfilled(v) == [state |-> "fulfilled", value |-> v]
Rejected(e) == [state |-> "rejected", value |-> e]

(***************************************************************************)
(* The state the methods work on, as a record.  firing is the id of the    *)
(* timer whose callback is running (Null outside the callbacks).           *)
(***************************************************************************)
Obj ==
  [tasks |-> tasks, isActive |-> isActive,
   lastTaskTimestamp |-> lastTaskTimestamp,
   currentTaskTimeoutId |-> currentTaskTimeoutId,
   timers |-> timers, promises |-> promises, executed |-> executed,
   lastExecAt |-> lastExecAt, stopSince |-> stopSince,
   everStarted |-> everStarted, unshifted |-> unshifted,
   firing |-> Null]

isEmpty(s) == Len(s.tasks) = 0
isNotEmpty(s) == ~isEmpty(s)
isStarted(s) == s.isActive
isStopped(s) == ~isStarted(s)
getQueueSize(s) == Len(s.tasks)
getMaxCallsPerSecond == maxCallsPerSecond

(***************************************************************************)
(* The host's timers.  A timer is [id, due]; it may fire at any instant    *)
(* from `due` on.  setTimeout(f, delay) is due delay ms from now; a NaN    *)
(* or negative delay is no delay.  A new timer gets an id that no          *)
(* outstanding timer has, that the queue does not hold and that is not the *)
(* id of the timer whose callback is running.                              *)
(***************************************************************************)
TimerIds == 1..(MaxSubmit + 3)

FreshTimerId(s) ==
  LET used == {t.id : t \in s.timers} \cup {s.currentTaskTimeoutId, s.firing}
  IN  CHOOSE i \in TimerIds : i \notin used /\ \A j \in 1..(i - 1) : j \in used

TimerDelay(delay) == IF delay = NaN \/ delay < 0 THEN 0 ELSE delay

setTimeout(s, delay) ==
  [s EXCEPT !.timers = @ \cup {[id |-> FreshTimerId(s), due |-> now + TimerDelay(delay)]}]

clearInterval(s, id) ==
  [s EXCEPT !.timers = {t \in @ : t.id # id}]

(***************************************************************************)
(* scheduleNext(timeoutMillisOverride)                                     *)
(***************************************************************************)
scheduleNext(s, timeoutMillisOverride) ==
  IF isEmpty(s)
  THEN [s EXCEPT !.currentTaskTimeoutId = Null]
  ELSE [setTimeout(s, timeoutMillisOverride)
          EXCEPT !.currentTaskTimeoutId = FreshTimerId(s)]

(***************************************************************************)
(* The wait updateTaskSchedule() arms the timer with when none is          *)
(* outstanding.                                                            *)
(***************************************************************************)
NextWait(s) ==
  IF Truthy(s.lastTaskTimestamp)
  THEN LET passedTime == now - s.lastTaskTimestamp
       IN  IF JsGt(passedTime, jobIntervalMillis)
           THEN jobIntervalMillis
           ELSE MathMax(0, JsSub(jobIntervalMillis, passedTime))
  ELSE 0

\* A variant that does not look at the active flag.
updateTaskSchedule_IgnoresStopped(s) ==
  IF isEmpty(s)
  THEN s
  ELSE IF s.currentTaskTimeoutId = Null
       THEN scheduleNext(s, NextWait(s))
       ELSE s

updateTaskSchedule(s) ==
  IF isEmpty(s) \/ isStopped(s)
  THEN s
  ELSE IF s.currentTaskTimeoutId = Null
       THEN scheduleNext(s, NextWait(s))
       ELSE s

(***************************************************************************)
(* start() and stop()                                                      *)
(***************************************************************************)
\* A variant without the check of isActive, which schedules anew.
start_Restarts(s) ==
  updateTaskSchedule([s EXCEPT !.isActive = TRUE, !.everStarted = TRUE,
                               !.currentTaskTimeoutId = Null])

start(s) ==
  IF s.isActive
  THEN s
  ELSE updateTaskSchedule([s EXCEPT !.isActive = TRUE, !.everStarted = TRUE])

startResult(s) == ~s.isActive

stop(s) ==
  IF s.isActive
  THEN LET s1 == [s EXCEPT !.isActive = FALSE, !.stopSince = TRUE]
       IN  IF s1.currentTaskTimeoutId # Null
           THEN [clearInterval(s1, s1.currentTaskTimeoutId)
                   EXCEPT !.currentTaskTimeoutId = Null,
                          !.lastTaskTimestamp = Null]
           ELSE s1
  ELSE [s EXCEPT !.stopSince = TRUE]

\* What stop() returns: the function has no return statement.
stopResult(s) == "undefined"

(***************************************************************************)
(* add(task, append), append(task), prepend(task)                          *)
(***************************************************************************)
NewTaskItem(s, task) == [id |-> Len(s.promises) + 1, task |-> task]

\* A variant that does not update the schedule.
add_WithoutSchedule(s, task, append) ==
  LET newTaskItem == NewTaskItem(s, task)
  IN  [s EXCEPT !.promises = Append(@, Pending),
                !.tasks = IF isEmpty(s) \/ append
                          THEN Append(@, newTaskItem)
                          ELSE <<newTaskItem>> \o @,
                !.unshifted = @ \/ ~(isEmpty(s) \/ append)]

\* A variant that always pushes the entry at the tail.
add_AlwaysPushes(s, task, append) ==
  LET newTaskItem == NewTaskItem(s, task)
      s1 == [s EXCEPT !.promises = Append(@, Pending),
                      !.tasks = Append(@, newTaskItem),
                      !.unshifted = @ \/ ~(isEmpty(s) \/ append)]
  IN  updateTaskSchedule(s1)

add(s, task, append) ==
  LET newTaskItem == NewTaskItem(s, task)
      s1 == [s EXCEPT !.promises = Append(@, Pending),
                      !.tasks = IF isEmpty(s) \/ append
                                THEN Append(@, newTaskItem)
                                ELSE <<newTaskItem>> \o @,
                      !.unshifted = @ \/ ~(isEmpty(s) \/ append)]
  IN  updateTaskSchedule(s1)

append(s, task) == add(s, task, TRUE)
prepend(s, task) == add(s, task, FALSE)

(***************************************************************************)
(* remove(task)                                                            *)
(***************************************************************************)
RECURSIVE Without(_, _)
Without(seq, task) ==
  IF seq = <<>> THEN <<>>
  ELSE IF Head(seq).task = task
       THEN Without(Tail(seq), task)
       ELSE <<Head(seq)>> \o Without(Tail(seq), task)

\* A variant whose loop ends at the first hit (it deletes one occurrence).
remove_StopsAtFirstHit(s, task) ==
  LET hits == {i \in 1..Len(s.tasks) : s.tasks[i].task = task}
      i == CHOOSE h \in hits : \A g \in hits : g <= h
  IN  IF hits = {}
      THEN s
      ELSE [s EXCEPT !.tasks = SubSeq(@, 1, i - 1) \o SubSeq(@, i + 1, Len(@))]

remove(s, task) ==
  IF isEmpty(s) THEN s ELSE [s EXCEPT !.tasks = Without(@, task)]

removeResult(s, task) ==
  IF isEmpty(s) THEN 0
  ELSE Cardinality({i \in 1..Len(s.tasks) : s.tasks[i].task = task})

(***************************************************************************)
(* nextTaskItem.task.call(): what the task does to the queue, and whether  *)
(* it returns or throws which value.                                       *)
(***************************************************************************)
TaskThrows(task) == task = "thrower"

TaskValue(task) ==
  CASE task = "one" -> "1"
    [] task = "thrower" -> "ERROR!"
    [] OTHER -> "undefined"

TaskEffect(s, task) ==
  CASE task = "stopper" -> stop(s)
    [] task = "restarter" -> start(stop(s))
    [] task = "appender" -> IF Len(s.promises) < MaxSubmit THEN append(s, "one") ELSE s
    [] OTHER -> s

Call(s, task) ==
  [s |-> TaskEffect(s, task), threw |-> TaskThrows(task), value |-> TaskValue(task)]

\* resolve(v) and reject(e) of the promise of entry id: a settled promise stays.
resolve(s, id, v) ==
  IF s.promises[id] = Pending
  THEN [s EXCEPT !.promises[id] = Fulfilled(v)] ELSE s

\* A variant that fulfils the promise with the thrown value.
reject_Fulfils(s, id, e) ==
  IF s.promises[id] = Pending
  THEN [s EXCEPT !.promises[id] = Fulfilled(e)] ELSE s

reject(s, id, e) ==
  IF s.promises[id] = Pending
  THEN [s EXCEPT !.promises[id] = Rejected(e)] ELSE s

(***************************************************************************)
(* processNextTask()                                                       *)
(***************************************************************************)
\* The history of an execution: which entry runs, when, and that no stop()
\* has been called since.
NoteExecution(s, item) ==
  [s EXCEPT !.executed = Append(@, item.id), !.lastExecAt = now,
            !.stopSince = FALSE]

\* A variant that takes the entry at the tail (pop() for shift()).
processNextTask_TakesLast(s) ==
  IF isEmpty(s)
  THEN s
  ELSE LET nextTaskItem == s.tasks[Len(s.tasks)]
           s1 == [s EXCEPT !.tasks = SubSeq(@, 1, Len(@) - 1)]
           r == Call(NoteExecution(s1, nextTaskItem), nextTaskItem.task)
       IN  IF r.threw
           THEN reject(r.s, nextTaskItem.id, r.value)
           ELSE resolve(r.s, nextTaskItem.id, r.value)

\* A variant whose catch block also stops the queue.
processNextTask_StopsOnError(s) ==
  IF isEmpty(s)
  THEN s
  ELSE LET nextTaskItem == Head(s.tasks)
           s1 == [s EXCEPT !.tasks = Tail(@)]
           r == Call(NoteExecution(s1, nextTaskItem), nextTaskItem.task)
       IN  IF r.threw
           THEN stop(reject(r.s, nextTaskItem.id, r.value))
           ELSE resolve(r.s, nextTaskItem.id, r.value)

\* A variant that reads the head entry and leaves it queued.
processNextTask_KeepsEntry(s) ==
  IF isEmpty(s)
  THEN s
  ELSE LET nextTaskItem == Head(s.tasks)
           r == Call(NoteExecution(s, nextTaskItem), nextTaskItem.task)
       IN  IF r.threw
           THEN reject(r.s, nextTaskItem.id, r.value)
           ELSE resolve(r.s, nextTaskItem.id, r.value)

processNextTask(s) ==
  IF isEmpty(s)
  THEN s
  ELSE LET nextTaskItem == Head(s.tasks)
           s1 == [s EXCEPT !.tasks = Tail(@)]
           r == Call(NoteExecution(s1, nextTaskItem), nextTaskItem.task)
       IN  IF r.threw
           THEN reject(r.s, nextTaskItem.id, r.value)
           ELSE resolve(r.s, nextTaskItem.id, r.value)

\* A variant that does not schedule the next entry.
TimerCallback_RunsOnce(s) ==
  [processNextTask([s EXCEPT !.lastTaskTimestamp = now])
     EXCEPT !.currentTaskTimeoutId = Null]

\* The callback scheduleNext() hands to setTimeout.
TimerCallback(s) ==
  scheduleNext(processNextTask([s EXCEPT !.lastTaskTimestamp = now]),
               jobIntervalMillis)

(***************************************************************************)
(* The actions.                                                            *)
(***************************************************************************)
Commit(s) ==
  /\ tasks' = s.tasks
  /\ isActive' = s.isActive
  /\ lastTaskTimestamp' = s.lastTaskTimestamp
  /\ currentTaskTimeoutId' = s.currentTaskTimeoutId
  /\ timers' = s.timers
  /\ promises' = s.promises
  /\ executed' = s.executed
  /\ lastExecAt' = s.lastExecAt
  /\ stopSince' = s.stopSince
  /\ everStarted' = s.everStarted
  /\ unshifted' = s.unshifted
  /\ UNCHANGED <<maxCallsPerSecond, jobIntervalMillis, now>>

\* new PromiseQueue(args)
Init ==
  /\ \E args \in CtorArgs :
       /\ maxCallsPerSecond = IF Len(args) = 0 THEN 1 ELSE args[1]
       /\ jobIntervalMillis = JsDiv(1000, args)
  /\ tasks = <<>>
  /\ isActive = FALSE
  /\ lastTaskTimestamp = Null
  /\ currentTaskTimeoutId = Null
  /\ timers = {}
  /\ now = 1
  /\ promises = <<>>
  /\ executed = <<>>
  /\ lastExecAt = Null
  /\ stopSince = FALSE
  /\ everStarted = FALSE
  /\ unshifted = FALSE
  /\ last = [op |-> "new"]

CallStart ==
  /\ Commit(start(Obj))
  /\ last' = [op |-> "start", ret |-> startResult(Obj)]

CallStop ==
  /\ Commit(stop(Obj))
  /\ last' = [op |-> "stop", ret |-> stopResult(Obj)]

\* What an add() call did, for the history: armed says that it armed a timer.
AddNote(name, s) ==
  [op |-> name, armed |-> s.timers # timers]

CallAppend(task) ==
  /\ Len(promises) < MaxSubmit
  /\ Commit(append(Obj, task))
  /\ last' = AddNote("append", append(Obj, task))

CallPrepend(task) ==
  /\ Len(promises) < MaxSubmit
  /\ Commit(prepend(Obj, task))
  /\ last' = AddNote("prepend", prepend(Obj, task))

CallRemove(task) ==
  /\ Commit(remove(Obj, task))
  /\ last' = [op |-> "remove", task |-> task, ret |-> removeResult(Obj, task)]

\* What a timer callback did, for the history: the task it ran.
FireNote(s) ==
  IF s.executed = executed
  THEN [op |-> "fire", ran |-> "none"]
  ELSE [op |-> "fire",
        ran |-> LET id == s.executed[Len(s.executed)]
                IN  tasks[CHOOSE i \in 1..Len(tasks) : tasks[i].id = id].task]

\* The host fires the timers in the order they are due.
TimerFires(t) ==
  /\ t \in timers
  /\ t.due <= now
  /\ \A u \in timers : t.due <= u.due
  /\ LET s == TimerCallback([Obj EXCEPT !.timers = @ \ {t}, !.firing = t.id])
     IN  /\ Commit(s)
         /\ last' = FireNote(s)

\* Time passes.
Tick ==
  /\ now < MaxTime
  /\ now' = now + 1
  /\ last' = [op |-> "tick"]
  /\ UNCHANGED <<maxCallsPerSecond, jobIntervalMillis, tasks, isActive,
                 lastTaskTimestamp, currentTaskTimeoutId, timers, promises,
                 executed, lastExecAt, stopSince, everStarted, unshifted>>

Next ==
  \/ CallStart
  \/ CallStop
  \/ \E task \in Tasks : CallAppend(task)
  \/ \E task \in PlainTasks : CallPrepend(task)
  \/ \E task \in PlainTasks : CallRemove(task)
  \/ \E t \in timers : TimerFires(t)
  \/ Tick

Spec == Init /\ [][Next]_vars

(***************************************************************************)
(* The specification for liveness.  The clock of Spec stops at MaxTime, so *)
(* a timer due after MaxTime would never fire.  Here time also passes at   *)
(* MaxTime: the clock keeps its value and every recorded instant moves one *)
(* millisecond into the past instead.  The code reads instants only in     *)
(* Date.now() - lastTaskTimestamp, compared with the interval, and in the  *)
(* due time of a timer, compared with the clock; an instant that reaches 1 *)
(* stays 1, which is more than every interval of CtorArgs before MaxTime   *)
(* and lets an overdue timer stay overdue.                                 *)
(*                                                                         *)
(* The calls that change nothing but the note of the last call (start()   *)
(* on an active queue, stop() on a stopped one, remove() of a task that is *)
(* not queued) are left out: no operation reads the note, so the           *)
(* behaviours differ from those with such calls by stuttering of the queue *)
(* and its environment, which is all the liveness property speaks of.      *)
(*                                                                         *)
(* Fairness: the host's clock advances, and the event loop runs the        *)
(* callback of a timer that is due.  The latter is weak fairness of the    *)
(* action \E t \in timers : TimerFires(t), written out: that action is     *)
(* enabled exactly when a timer is due, and its steps are the steps of     *)
(* LiveNext that note a firing.                                            *)
(***************************************************************************)
Earlier(instant) == IF instant > 1 THEN instant - 1 ELSE instant

TickRelative ==
  /\ now = MaxTime
  /\ timers' = {[id |-> t.id, due |-> Earlier(t.due)] : t \in timers}
  /\ lastTaskTimestamp' = Earlier(lastTaskTimestamp)
  /\ lastExecAt' = Earlier(lastExecAt)
  /\ last' = [op |-> "tick"]
  /\ UNCHANGED <<maxCallsPerSecond, jobIntervalMillis, tasks, isActive,
                 currentTaskTimeoutId, now, promises, executed, stopSince,
                 everStarted, unshifted>>

\* The queue and its environment, without the note of the last call.
Effect ==
  <<tasks, isActive, lastTaskTimestamp, currentTaskTimeoutId, timers, now,
    promises, executed, lastExecAt, stopSince, everStarted, unshifted>>

LiveNext ==
  \/ CallStart /\ Effect' # Effect
  \/ CallStop /\ Effect' # Effect
  \/ \E task \in Tasks : CallAppend(task)
  \/ \E task \in PlainTasks : CallPrepend(task)
  \/ \E task \in PlainTasks : CallRemove(task) /\ Effect' # Effect
  \/ \E t \in timers : TimerFires(t)
  \/ Tick
  \/ TickRelative

TimerDue == \E t \in timers : t.due <= now

DueTimersFire == []<>(~TimerDue) \/ []<><<last'.op = "fire">>_vars

LiveSpec ==
  /\ Init
  /\ [][LiveNext]_vars
  /\ WF_vars(Tick)
  /\ WF_vars(TickRelative)
  /\ DueTimersFire

(***************************************************************************)
(* The properties.                                                         *)
(***************************************************************************)
\* The interval of the queue: 1000 / rate, with the rate getMaxCallsPerSecond()
\* returns.
ClaimedInterval == 1000 \div getMaxCallsPerSecond

\* This step executes a task.
Executes == Len(executed') = Len(executed) + 1

\* The entry this step executes.
ExecutedItem ==
  LET id == executed'[Len(executed')]
  IN  tasks[CHOOSE i \in 1..Len(tasks) : tasks[i].id = id]

\* This step is a client's call of add(): append() or prepend().
AddCall == last'.op \in {"append", "prepend"}

\* The timer this step arms and the queue holds.
ArmedTimers == {t \in timers' \ timers : t.id = currentTaskTimeoutId'}

Ids(seq) == [i \in 1..Len(seq) |-> seq[i].id]

Increasing(seq) == \A i, j \in 1..Len(seq) : i < j => seq[i] < seq[j]

(***************************************************************************)
(* C1: two consecutive task executions between which stop() was not called *)
(* are at least 1000 / rate ms apart.                                      *)
(***************************************************************************)
C1_SpacedByInterval ==
  [][Executes /\ lastExecAt # Null /\ ~stopSince
       => now - lastExecAt >= ClaimedInterval]_vars

(***************************************************************************)
(* C2: every execution happens in a timer firing, removes and runs the     *)
(* entry at the head of the queue, and is the only one of that firing; as  *)
(* long as no entry was put at the head of a non-empty queue, the entries  *)
(* are executed in the order of their submission.                          *)
(***************************************************************************)
C2_QueueOrder ==
  /\ [][/\ executed' = executed \/ Executes
        /\ Executes =>
             /\ last'.op = "fire"
             /\ tasks # <<>>
             /\ executed' = Append(executed, Head(tasks).id)
             /\ \A i \in 1..Len(tasks') : tasks'[i].id # Head(tasks).id]_vars
  /\ [](~unshifted => Increasing(executed \o Ids(tasks)))

\* Two appended tasks have been executed, in the order of their submission.
C2_Witness ==
  /\ last.op = "fire"
  /\ ~unshifted
  /\ executed = <<1, 2>>

(***************************************************************************)
(* C3: a task is executed only while the queue is active.                  *)
(***************************************************************************)
C3_NoExecutionWhileStopped ==
  [][Executes => isActive]_vars

(***************************************************************************)
(* C4: on a queue that has never been started every add() call makes the   *)
(* queue one entry longer, no timer is armed and no task is executed.      *)
(***************************************************************************)
C4_NeverStarted ==
  /\ [](~everStarted =>
          /\ timers = {}
          /\ currentTaskTimeoutId = Null
          /\ executed = <<>>
          /\ \A i \in 1..Len(promises) : promises[i] = Pending)
  /\ [][~everStarted' /\ AddCall => getQueueSize(Obj') = getQueueSize(Obj) + 1]_vars

\* Two tasks were added to a queue that has never been started.
C4_Witness ==
  /\ ~everStarted
  /\ last.op \in {"append", "prepend"}
  /\ Len(promises) = 2
  /\ getQueueSize(Obj) = 2

(***************************************************************************)
(* C5: the promise of an entry is settled when the entry is executed, and  *)
(* not before: it is fulfilled with the value the task returned or         *)
(* rejected with the value the task threw.                                 *)
(***************************************************************************)
C5_SettledWithOutcome ==
  /\ [][Executes =>
          /\ promises[ExecutedItem.id] = Pending
          /\ promises'[ExecutedItem.id] =
               IF TaskThrows(ExecutedItem.task)
               THEN Rejected(TaskValue(ExecutedItem.task))
               ELSE Fulfilled(TaskValue(ExecutedItem.task))]_vars
  /\ [](\A i \in 1..Len(promises) :
          promises[i] # Pending => \E k \in 1..Len(executed) : executed[k] = i)

\* A returning and a throwing task have been executed.
C5_Witness ==
  /\ last.op = "fire"
  /\ \E i \in 1..Len(promises) : promises[i] = Fulfilled("1")
  /\ \E i \in 1..Len(promises) : promises[i] = Rejected("ERROR!")

(***************************************************************************)
(* C6: the execution of a task that throws rejects the promise of its      *)
(* entry and otherwise leaves the queue as the execution of a task that    *)
(* returns does: the queue is as active as before, the other entries are   *)
(* queued in the same order, and the timer for the next entry is armed     *)
(* with the interval (none when no entry is left).                         *)
(***************************************************************************)
\* The queue after the firing of timer t, had the entry at the head held the
\* task `one`.
AfterSuccess(t) ==
  TimerCallback([Obj EXCEPT !.timers = @ \ {t}, !.firing = t.id,
                            !.tasks[1].task = "one"])

C6_ThrowDoesNotDisturb ==
  [][Executes /\ ExecutedItem.task = "thrower" =>
       /\ promises'[ExecutedItem.id] = Rejected("ERROR!")
       /\ isActive' = isActive
       /\ tasks' = Tail(tasks)
       /\ IF Tail(tasks) = <<>>
          THEN currentTaskTimeoutId' = Null /\ timers' \subseteq timers
          ELSE \E t \in ArmedTimers : t.due = now + TimerDelay(jobIntervalMillis)
       /\ \E t \in timers :
            /\ tasks' = AfterSuccess(t).tasks
            /\ isActive' = AfterSuccess(t).isActive
            /\ timers' = AfterSuccess(t).timers
            /\ currentTaskTimeoutId' = AfterSuccess(t).currentTaskTimeoutId
            /\ lastTaskTimestamp' = AfterSuccess(t).lastTaskTimestamp]_vars

\* A throwing task was executed with another entry queued behind it.
C6_Witness ==
  /\ last.op = "fire"
  /\ last.ran = "thrower"
  /\ isActive
  /\ tasks # <<>>
  /\ \E t \in timers : t.id = currentTaskTimeoutId

(***************************************************************************)
(* C7: stop() on an active queue clears the timestamp of the last          *)
(* execution.                                                              *)
(***************************************************************************)
C7_StopClearsTimestamp ==
  [][last'.op = "stop" /\ isActive => lastTaskTimestamp' = Null]_vars

(***************************************************************************)
(* C8: when the schedule is updated on an active, non-empty queue with no  *)
(* timer outstanding and the last execution is at least an interval ago,   *)
(* the timer is armed with wait 0.                                         *)
(***************************************************************************)
C8_IdleQueueRunsAtOnce ==
  [][/\ AddCall \/ last'.op = "start"
     /\ isActive' /\ tasks' # <<>>
     /\ currentTaskTimeoutId = Null
     /\ lastTaskTimestamp # Null
     /\ now - lastTaskTimestamp >= ClaimedInterval
     => \E t \in ArmedTimers : t.due = now]_vars

(***************************************************************************)
(* C9: a task added to an active, empty queue with no timer outstanding,   *)
(* less than an interval after the last execution, is scheduled for the    *)
(* instant of the last execution + the interval.                           *)
(***************************************************************************)
C9_WaitsForRestOfInterval ==
  [][/\ AddCall
     /\ isActive /\ tasks = <<>>
     /\ currentTaskTimeoutId = Null
     /\ lastTaskTimestamp # Null
     /\ now - lastTaskTimestamp < ClaimedInterval
     => \E t \in ArmedTimers :
          /\ t.due = lastTaskTimestamp + ClaimedInterval
          /\ t.due >= now]_vars

\* The same for the queues constructed with a rate, whose interval is a number.
C9_WithExplicitRate ==
  [][/\ AddCall
     /\ isActive /\ tasks = <<>>
     /\ currentTaskTimeoutId = Null
     /\ lastTaskTimestamp # Null
     /\ jobIntervalMillis # NaN
     /\ now - lastTaskTimestamp < jobIntervalMillis
     => \E t \in ArmedTimers :
          /\ t.due = lastTaskTimestamp + jobIntervalMillis
          /\ t.due >= now]_vars

(***************************************************************************)
(* C10: a task appended to a started, empty queue on which no task has run *)
(* yet has been executed when append() returns.                            *)
(***************************************************************************)
C10_FirstTaskRunsInsideAppend ==
  [][/\ last'.op = "append"
     /\ isActive /\ tasks = <<>>
     /\ executed = <<>> /\ lastTaskTimestamp = Null
     => executed' = <<Len(promises')>>]_vars

(***************************************************************************)
(* C11: the interval the queue schedules with is 1000 divided by the rate  *)
(* getMaxCallsPerSecond() returns; for a queue constructed without a rate  *)
(* that is 1000 / 1 = 1000 ms.                                             *)
(***************************************************************************)
C11_IntervalFromRate ==
  jobIntervalMillis = 1000 \div getMaxCallsPerSecond

(***************************************************************************)
(* C12: remove(op) takes every entry whose task is op out of the queue and *)
(* returns their number (0 on an empty queue); the other entries stay      *)
(* queued in their order and nothing else changes.  An entry that left the *)
(* queue without being executed is never queued or executed again and its  *)
(* promise stays pending.                                                  *)
(***************************************************************************)
QueuedIds == {tasks[i].id : i \in 1..Len(tasks)}

ExecutedIds == {executed[k] : k \in 1..Len(executed)}

\* The entries that left the queue without being executed.
RemovedIds == (1..Len(promises)) \ (QueuedIds \cup ExecutedIds)

C12_RemoveDeletesAll ==
  /\ [][last'.op = "remove" =>
          LET hits == {i \in 1..Len(tasks) : tasks[i].task = last'.task}
          IN  /\ tasks' = SelectSeq(tasks, LAMBDA e : e.task # last'.task)
              /\ last'.ret = Cardinality(hits)
              /\ last'.ret = Len(tasks) - Len(tasks')
              /\ tasks = <<>> => last'.ret = 0
              /\ hits = 1..Len(tasks) => tasks' = <<>>
              /\ UNCHANGED <<isActive, lastTaskTimestamp, currentTaskTimeoutId,
                             timers, promises, executed>>]_vars
  /\ [][RemovedIds \subseteq RemovedIds']_vars
  /\ [](\A i \in RemovedIds : promises[i] = Pending)

\* A task queued twice, with nothing else queued, was removed.
C12_Witness ==
  /\ last.op = "remove"
  /\ last.ret = 2
  /\ tasks = <<>>
  /\ RemovedIds = {1, 2}

(***************************************************************************)
(* C13: prepend(op) on a non-empty queue puts the new entry at the head,   *)
(* before every queued entry, and leaves an armed timer as it is; the      *)
(* execution that follows runs the new entry.  On an empty queue           *)
(* prepend(op), i.e. add(op, false), gives the state append(op) gives.     *)
(***************************************************************************)
C13_PrependAtHead ==
  /\ [][last'.op = "prepend" /\ tasks # <<>> =>
          /\ Tail(tasks') = tasks
          /\ Head(tasks').id = Len(promises')
          /\ promises' = Append(promises, Pending)
          /\ currentTaskTimeoutId # Null =>
               timers' = timers /\ currentTaskTimeoutId' = currentTaskTimeoutId]_vars
  /\ [][last.op = "prepend" /\ Executes =>
          executed' = Append(executed, Len(promises))]_vars
  /\ [][last'.op = "prepend" /\ tasks = <<>> =>
          \E task \in Tasks : Obj' = append(Obj, task)]_vars
  /\ [](tasks = <<>> =>
          \A task \in Tasks :
            /\ prepend(Obj, task) = append(Obj, task)
            /\ add(Obj, task, FALSE) = append(Obj, task))

\* An entry prepended to a queue that held entry 1 was executed before entry 1.
C13_Witness ==
  /\ last.op = "fire"
  /\ unshifted
  /\ executed = <<2>>
  /\ QueuedIds = {1}

(***************************************************************************)
(* C14: when the queue is eventually active for good (started and not      *)
(* stopped afterwards), then eventually the queue is empty for good and    *)
(* every submitted entry that was not removed has been executed and its    *)
(* promise settled.  (Submissions cease: there are at most MaxSubmit.)     *)
(***************************************************************************)
AllDone ==
  /\ tasks = <<>>
  /\ \A i \in 1..Len(promises) :
       i \in RemovedIds \/ (i \in ExecutedIds /\ promises[i] # Pending)

C14_EventuallyAllExecuted ==
  <>[]isActive => <>[]AllDone

\* Two submitted entries have been executed by a queue that is active.
C14_Witness ==
  /\ isActive
  /\ ~stopSince
  /\ AllDone
  /\ Cardinality(ExecutedIds) = 2

(***************************************************************************)
(* C15: start() on a stopped queue makes the queue active, updates the     *)
(* schedule (it arms a timer when entries are queued and the queue holds   *)
(* no timer, and touches no timer otherwise) and returns true; start() on  *)
(* an active queue returns false and changes nothing.                      *)
(***************************************************************************)
C15_StartOnlyWhenStopped ==
  [][last'.op = "start" =>
       IF isActive
       THEN /\ last'.ret = FALSE
            /\ UNCHANGED <<maxCallsPerSecond, jobIntervalMillis, tasks, isActive,
                           lastTaskTimestamp, currentTaskTimeoutId, timers, now,
                           promises, executed, lastExecAt, stopSince,
                           everStarted, unshifted>>
       ELSE /\ last'.ret = TRUE
            /\ isActive'
            /\ UNCHANGED <<tasks, promises, executed, lastTaskTimestamp>>
            /\ IF tasks # <<>> /\ currentTaskTimeoutId = Null
               THEN /\ ArmedTimers # {}
                    /\ timers' = timers \cup ArmedTimers
               ELSE UNCHANGED <<timers, currentTaskTimeoutId>>]_vars

\* start() was called on an active queue that holds a timer and a timestamp.
C15_Witness ==
  /\ last.op = "start"
  /\ last.ret = FALSE
  /\ currentTaskTimeoutId # Null
  /\ lastTaskTimestamp # Null

\* start() was called on a stopped queue with entries and armed the timer.
C15_WitnessStopped ==
  /\ last.op = "start"
  /\ last.ret = TRUE
  /\ tasks # <<>>
  /\ \E t \in timers : t.id = currentTaskTimeoutId

(***************************************************************************)
(* C16: stop() returns true when the queue was active and false when it    *)
(* was stopped already.                                                    *)
(***************************************************************************)
C16_StopReturnsWasActive ==
  [][last'.op = "stop" =>
       last'.ret = IF isActive THEN "true" ELSE "false"]_vars

(***************************************************************************)
(* C17: at most one timer of the queue is outstanding in every reachable   *)
(* state.                                                                  *)
(***************************************************************************)
C17_AtMostOneTimer ==
  Cardinality(timers) <= 1

(***************************************************************************)
(* C18: the queue holds a timer handle only while it is active and the     *)
(* timer of that handle is outstanding; after a timer callback the handle  *)
(* is null or that of a timer the callback armed; after stop() it is null. *)
(***************************************************************************)
C18_HandleOnlyWhileArmed ==
  /\ [](currentTaskTimeoutId # Null =>
          isActive /\ \E t \in timers : t.id = currentTaskTimeoutId)
  /\ [][last'.op = "fire" =>
          currentTaskTimeoutId' = Null \/ ArmedTimers # {}]_vars
  /\ [][last'.op = "stop" => currentTaskTimeoutId' = Null]_vars

(***************************************************************************)
(* C19: the timestamp of the queue is null when no task has been executed  *)
(* since the construction or since the last stop(), and the instant of the *)
(* most recent execution otherwise; a timer callback that finds the queue  *)
(* empty executes nothing and leaves the timestamp as it is.               *)
(***************************************************************************)
C19_TimestampOfLastExecution ==
  /\ [](lastTaskTimestamp =
          IF lastExecAt = Null \/ stopSince THEN Null ELSE lastExecAt)
  /\ [][last'.op = "fire" /\ tasks = <<>> =>
          executed' = executed /\ lastTaskTimestamp' = lastTaskTimestamp]_vars

(***************************************************************************)
(* C20: every submitted entry leaves the queue once, by its execution or   *)
(* by remove().  No entry is executed twice or queued twice, an executed   *)
(* entry is not queued, an entry that is out of the queue stays out and is *)
(* not executed later, a settled promise keeps its value, and every step   *)
(* changes the queue size by the submissions minus the executions minus    *)
(* the number remove() returns (the size is 0 after construction).         *)
(***************************************************************************)
\* The number of entries this step's remove() call reports as removed.
RemovedNow == IF last'.op = "remove" THEN last'.ret ELSE 0

C20_LeavesQueueOnce ==
  /\ [](/\ \A j, k \in 1..Len(executed) : executed[j] = executed[k] => j = k
        /\ \A j, k \in 1..Len(tasks) : tasks[j].id = tasks[k].id => j = k
        /\ QueuedIds \cap ExecutedIds = {}
        /\ QueuedIds \cup ExecutedIds \subseteq 1..Len(promises))
  /\ [][\A i \in 1..Len(promises) :
          /\ i \notin QueuedIds =>
               i \notin QueuedIds' /\ (i \in ExecutedIds' => i \in ExecutedIds)
          /\ promises[i] # Pending => promises'[i] = promises[i]]_vars
  /\ [][getQueueSize(Obj') - getQueueSize(Obj) =
          (Len(promises') - Len(promises)) - (Len(executed') - Len(executed))
            - RemovedNow]_vars

\* Of two submitted entries one was removed and the other one executed.
C20_Witness ==
  /\ Len(promises) = 2
  /\ tasks = <<>>
  /\ Cardinality(ExecutedIds) = 1
  /\ Cardinality(RemovedIds) = 1
  /\ last.op = "fire"

(***************************************************************************)
(* C21: in every reachable state an active queue with a queued entry holds *)
(* the handle of an outstanding timer.  An append() or prepend() on a      *)
(* queue that holds an outstanding timer arms no timer and keeps the       *)
(* handle, and no add() call cancels or postpones an outstanding timer.    *)
(***************************************************************************)
\* The queue holds the handle of an outstanding timer.
HoldsTimer == \E t \in timers : t.id = currentTaskTimeoutId

C21_NoStall ==
  /\ [](isActive /\ isNotEmpty(Obj) => HoldsTimer)
  /\ [][AddCall /\ HoldsTimer =>
          UNCHANGED <<timers, currentTaskTimeoutId, lastTaskTimestamp>>]_vars
  /\ [][AddCall => timers \subseteq timers']_vars

\* An entry was added to an active queue whose timer was armed already.
C21_Witness ==
  /\ last.op \in {"append", "prepend"}
  /\ ~last.armed
  /\ isActive
  /\ Len(tasks) = 2
  /\ HoldsTimer

====
